---- MODULE Spec2Model ----
(***************************************************************************)
(* Model of the WordEmbeddingVisualization engine (embedding-engine.js,    *)
(* kept in src/rag-visualization/custom_commands.md from line 131 on).     *)
(*                                                                         *)
(* Units: opacities and similarity scores are in hundredths (0.4 -> 40),   *)
(* scales in tenths (2.0 -> 20), signal and spark progress in thousandths  *)
(* (0.015 -> 15).  Coordinates are exact rationals [n, d]; d = 0 encodes   *)
(* the non-finite doubles (n = 0: NaN, n = 1: Infinity, n = -1: -Infinity).*)
(* Strings that are searched are sequences of one-character strings.       *)
(***************************************************************************)
EXTENDS Integers, Sequences, FiniteSets, TLC

(***************************************************************************)
(* Bounds of the model.                                                    *)
(***************************************************************************)
MaxNodes == 3
MaxSimilar == 3
MaxQueryLen == 2
MaxFrames == 3

MaxSockets == 6

(***************************************************************************)
(* Program constants.                                                      *)
(***************************************************************************)
similarityThreshold == 55
TARGET_EXTENT == 500
SignalIncrement == 15
SparkIncrement == 20
ProgressOne == 1000

BuildEdgeOpacity == 80
DefaultEdgeOpacity == 40
OverloadOpacity == 100
TunnelOpacity == 20
SearchEdgeBright == 100
SearchEdgeDim == 2

BaselineScale == 10
HoverScale == 20
MatchScale == 30
DimScale == 7

LabelWidth == 15
LabelHoverWidth == 75

(***************************************************************************)
(* Small helpers.                                                          *)
(***************************************************************************)
Abs(i) == IF i < 0 THEN -i ELSE i

Sgn(i) == IF i > 0 THEN 1 ELSE IF i < 0 THEN -1 ELSE 0

Range(s) == {s[i] : i \in 1..Len(s)}

RECURSIVE GCD(_, _)
GCD(a, b) == IF b = 0 THEN a ELSE GCD(b, a % b)

SeqsUpTo(S, k) == UNION {[1..m -> S] : m \in 0..k}

(***************************************************************************)
(* IEEE-style arithmetic on exact rationals (the doubles of the engine).   *)
(***************************************************************************)
NaN == [n |-> 0, d |-> 0]

Infinity == [n |-> 1, d |-> 0]

NegInfinity == [n |-> -1, d |-> 0]

Num(i) == [n |-> i, d |-> 1]

IsNaN(a) == a.d = 0 /\ a.n = 0

IsFinite(a) == a.d # 0

Rat(n, d) ==
    IF d = 0 THEN [n |-> Sgn(n), d |-> 0]
    ELSE LET g == GCD(Abs(n), Abs(d))
         IN  [n |-> Sgn(d) * (n \div g), d |-> Abs(d) \div g]

NumLess(a, b) ==
    IF IsNaN(a) \/ IsNaN(b) THEN FALSE
    ELSE IF ~IsFinite(a) THEN a.n < 0 /\ b # a
    ELSE IF ~IsFinite(b) THEN b.n > 0
    ELSE a.n * b.d < b.n * a.d

NumMin(a, b) == IF IsNaN(a) \/ IsNaN(b) THEN NaN ELSE IF NumLess(b, a) THEN b ELSE a

NumMax(a, b) == IF IsNaN(a) \/ IsNaN(b) THEN NaN ELSE IF NumLess(a, b) THEN b ELSE a

NumAdd(a, b) ==
    IF IsFinite(a) /\ IsFinite(b) THEN Rat(a.n * b.d + b.n * a.d, a.d * b.d)
    ELSE IF IsNaN(a) \/ IsNaN(b) THEN NaN
    ELSE IF ~IsFinite(a) /\ ~IsFinite(b) THEN (IF a.n = b.n THEN a ELSE NaN)
    ELSE IF ~IsFinite(a) THEN a ELSE b

NumNeg(a) == [n |-> -a.n, d |-> a.d]

NumSub(a, b) == NumAdd(a, NumNeg(b))

NumMul(a, b) ==
    IF IsFinite(a) /\ IsFinite(b) THEN Rat(a.n * b.n, a.d * b.d)
    ELSE IF IsNaN(a) \/ IsNaN(b) \/ a.n = 0 \/ b.n = 0 THEN NaN
    ELSE [n |-> Sgn(a.n) * Sgn(b.n), d |-> 0]

NumDiv(a, b) ==
    IF IsNaN(a) \/ IsNaN(b) THEN NaN
    ELSE IF ~IsFinite(b) THEN (IF IsFinite(a) THEN Num(0) ELSE NaN)
    ELSE IF ~IsFinite(a) THEN [n |-> a.n * (IF b.n < 0 THEN -1 ELSE 1), d |-> 0]
    ELSE Rat(a.n * b.d, a.d * b.n)

Vec(x, y, z) == [x |-> x, y |-> y, z |-> z]

(***************************************************************************)
(* Strings: String.prototype.toLowerCase, trim and includes.               *)
(***************************************************************************)
LowerOf(c) ==
    CASE c = "A" -> "a"
      [] c = "B" -> "b"
      [] c = "C" -> "c"
      [] OTHER -> c

toLowerCase(s) == [i \in 1..Len(s) |-> LowerOf(s[i])]

IsWhitespace(c) == c = " "

RECURSIVE trimStart(_)
trimStart(s) ==
    IF s = <<>> THEN s
    ELSE IF IsWhitespace(Head(s)) THEN trimStart(Tail(s)) ELSE s

RECURSIVE trimEnd(_)
trimEnd(s) ==
    IF s = <<>> THEN s
    ELSE IF IsWhitespace(s[Len(s)]) THEN trimEnd(SubSeq(s, 1, Len(s) - 1)) ELSE s

trim(s) == trimEnd(trimStart(s))

includes(s, q) ==
    \E k \in 0..(Len(s) - Len(q)) : SubSeq(s, k + 1, k + Len(q)) = q

(***************************************************************************)
(* normalizeData(words): bounding box, centre, one uniform scale.          *)
(***************************************************************************)
RECURSIVE FoldMin(_, _, _, _)
FoldMin(words, axis, i, acc) ==
    IF i > Len(words) THEN acc
    ELSE FoldMin(words, axis, i + 1, NumMin(acc, words[i].position[axis]))

RECURSIVE FoldMax(_, _, _, _)
FoldMax(words, axis, i, acc) ==
    IF i > Len(words) THEN acc
    ELSE FoldMax(words, axis, i + 1, NumMax(acc, words[i].position[axis]))

BoxMin(words, axis) == FoldMin(words, axis, 1, Infinity)

BoxMax(words, axis) == FoldMax(words, axis, 1, NegInfinity)

\* variant: the sum of the two bounds, not halved
BoxCenterSum(words, axis) == NumAdd(BoxMin(words, axis), BoxMax(words, axis))

BoxCenter(words, axis) ==
    NumDiv(NumAdd(BoxMin(words, axis), BoxMax(words, axis)), Num(2))

BoxSpan(words, axis) == NumSub(BoxMax(words, axis), BoxMin(words, axis))

\* variant: the span of the x axis alone
SpanOfX(words) == NumSub(FoldMax(words, "x", 1, NegInfinity), FoldMin(words, "x", 1, Infinity))

LargestSpan(words) ==
    NumMax(NumMax(BoxSpan(words, "x"), BoxSpan(words, "y")), BoxSpan(words, "z"))

NormScale(words) == NumDiv(Num(TARGET_EXTENT), LargestSpan(words))

normalizeData(words) ==
    LET scale == NormScale(words)
        tr(w, axis) == NumMul(NumSub(w.position[axis], BoxCenter(words, axis)), scale)
    IN  [i \in 1..Len(words) |->
            [words[i] EXCEPT !.position =
                Vec(tr(words[i], "x"), tr(words[i], "y"), tr(words[i], "z"))]]

(***************************************************************************)
(* Scene construction.                                                     *)
(***************************************************************************)
\* obj[key] || []: the empty list when the object does not carry the property
OrEmpty(obj, key) == IF key \in DOMAIN obj THEN obj[key] ELSE <<>>

createWordNodes(words) ==
    [i \in 1..Len(words) |->
        [userData |-> [word |-> words[i].word,
                       categories |-> OrEmpty(words[i], "categories")],
         position |-> words[i].position,
         floatY |-> 0,
         scale |-> BaselineScale,
         emissiveIntensity |-> 0,
         opacity |-> 100]]

createWordLabels(words, nodes) ==
    [i \in 1..Len(words) |->
        [userData |-> <<>>,
         text |-> words[i].word,
         anchor |-> nodes[i].position,
         floatY |-> nodes[i].floatY,
         dy |-> -8,
         scale |-> LabelWidth,
         color |-> "white",
         opacity |-> 100,
         visible |-> TRUE]]

FindWord(words, name) ==
    IF \E k \in 1..Len(words) : words[k].word = name
    THEN CHOOSE k \in 1..Len(words) :
            /\ words[k].word = name
            /\ \A j \in 1..(k - 1) : words[j].word # name
    ELSE 0

NewConnection(words, i, name) ==
    [userData |-> [source |-> words[i].word, target |-> name],
     start |-> words[i].position,
     end |-> words[FindWord(words, name)].position,
     color |-> "glow15",
     opacity |-> BuildEdgeOpacity,
     linewidth |-> 1]

\* variant: similar.slice(0, 3)
SliceEndThree(similar) == IF Len(similar) < 3 THEN Len(similar) ELSE 3

\* the last index of similar.slice(0, 2)
SliceEnd(similar) == IF Len(similar) < 2 THEN Len(similar) ELSE 2

\* variant: a score equal to the threshold is discarded too
NotAboveThreshold(score) == score <= similarityThreshold

BelowThreshold(score) == score < similarityThreshold

\* variant: a name that is not in the dataset ends the work on the entry's list
RECURSIVE ConnectionsStopAtUnknown(_, _, _, _)
ConnectionsStopAtUnknown(words, i, j, acc) ==
    LET similar == OrEmpty(words[i], "similar_words")
    IN  IF j > SliceEnd(similar) THEN acc
        ELSE IF BelowThreshold(similar[j][2])
             THEN ConnectionsStopAtUnknown(words, i, j + 1, acc)
        ELSE IF FindWord(words, similar[j][1]) = 0 THEN acc
        ELSE ConnectionsStopAtUnknown(words, i, j + 1,
                                      Append(acc, NewConnection(words, i, similar[j][1])))

\* variant: no edge is made when the opposite edge is already in the list
RECURSIVE ConnectionsDeduplicated(_, _, _, _)
ConnectionsDeduplicated(words, i, j, acc) ==
    LET similar == OrEmpty(words[i], "similar_words")
        opposite(name) == \E e \in 1..Len(acc) :
                             /\ acc[e].userData.source = name
                             /\ acc[e].userData.target = words[i].word
    IN  IF j > SliceEnd(similar) THEN acc
        ELSE IF BelowThreshold(similar[j][2]) \/ FindWord(words, similar[j][1]) = 0
                \/ opposite(similar[j][1])
             THEN ConnectionsDeduplicated(words, i, j + 1, acc)
        ELSE ConnectionsDeduplicated(words, i, j + 1,
                                     Append(acc, NewConnection(words, i, similar[j][1])))

RECURSIVE ConnectionsOfEntry(_, _, _, _)
ConnectionsOfEntry(words, i, j, acc) ==
    LET similar == OrEmpty(words[i], "similar_words")
    IN  IF j > SliceEnd(similar) THEN acc
        ELSE IF BelowThreshold(similar[j][2])
             THEN ConnectionsOfEntry(words, i, j + 1, acc)
        ELSE IF FindWord(words, similar[j][1]) = 0
             THEN ConnectionsOfEntry(words, i, j + 1, acc)
        ELSE ConnectionsOfEntry(words, i, j + 1,
                                Append(acc, NewConnection(words, i, similar[j][1])))

RECURSIVE ConnectionsFrom(_, _, _)
ConnectionsFrom(words, i, acc) ==
    IF i > Len(words) THEN acc
    ELSE ConnectionsFrom(words, i + 1, ConnectionsOfEntry(words, i, 1, acc))

createSemanticConnections(words) == ConnectionsFrom(words, 1, <<>>)

\* variant: the signal runs from the target to the source
createSignalReversed(start, end, random) ==
    [start |-> end, end |-> start, progress |-> random]

createSignal(start, end, random) ==
    [start |-> start, end |-> end, progress |-> random]

createSignals(lines, randoms) ==
    [e \in 1..Len(lines) |-> createSignal(lines[e].start, lines[e].end, randoms[e])]

(***************************************************************************)
(* A property read that the object does not carry yields undefined.        *)
(***************************************************************************)
Undefined == <<"undefined">>

Get(userData, key) == IF key \in DOMAIN userData THEN userData[key] ELSE Undefined

(***************************************************************************)
(* Search: performSearch, applyHighlighting, resetHighlighting.            *)
(***************************************************************************)
MatchesQuery(w, query) ==
    LET inWord == includes(toLowerCase(w.word), query)
        inCat == \E k \in 1..Len(w.categories) :
                    includes(toLowerCase(w.categories[k]), query)
    IN  inWord \/ inCat

\* variant: only the neighbours that can become edges
SimilarNamesFirstTwo(w) ==
    {w.similar_words[k][1] : k \in 1..(IF Len(w.similar_words) < 2 THEN Len(w.similar_words) ELSE 2)}

SimilarNames(w) == {w.similar_words[k][1] : k \in 1..Len(w.similar_words)}

\* w.categories.some(...) and w.similar_words.forEach(...) of an entry that
\* does not carry the property raise a TypeError
SearchRaisesOn(w, query) ==
    \/ "categories" \notin DOMAIN w
    \/ MatchesQuery(w, query) /\ "similar_words" \notin DOMAIN w

\* the first entry at which the forEach of performSearch raises, 0 when none does
FirstRaising(words, query) ==
    LET raising == {k \in 1..Len(words) : SearchRaisesOn(words[k], query)}
    IN  IF raising = {} THEN 0
        ELSE CHOOSE k \in raising : \A other \in raising : k <= other

RECURSIVE CollectHighlighted(_, _, _, _)
CollectHighlighted(words, query, i, acc) ==
    IF i > Len(words) THEN acc
    ELSE IF MatchesQuery(words[i], query)
         THEN CollectHighlighted(words, query, i + 1,
                                 acc \cup {words[i].word} \cup SimilarNames(words[i]))
         ELSE CollectHighlighted(words, query, i + 1, acc)

\* variant: matches are raised, the other nodes are left as they are
HighlightNodeMatchesOnly(node, match) ==
    IF match
    THEN [node EXCEPT !.emissiveIntensity = 150, !.opacity = 80, !.scale = MatchScale]
    ELSE node

HighlightNode(node, match) ==
    [node EXCEPT !.emissiveIntensity = IF match THEN 150 ELSE 15,
                 !.opacity = IF match THEN 80 ELSE 5,
                 !.scale = IF match THEN MatchScale ELSE DimScale]

HighlightLabel(label, hl) ==
    [label EXCEPT !.visible = Get(label.userData, "word") \in hl]

\* variant: an edge without a match is hidden altogether
HighlightLineHidden(line, hl) ==
    LET match == Get(line.userData, "from") \in hl /\ Get(line.userData, "to") \in hl
    IN  [line EXCEPT !.opacity = IF match THEN SearchEdgeBright ELSE 0,
                     !.linewidth = IF match THEN 3 ELSE 1]

HighlightLine(line, hl) ==
    LET match == Get(line.userData, "from") \in hl /\ Get(line.userData, "to") \in hl
    IN  [line EXCEPT !.opacity = IF match THEN SearchEdgeBright ELSE SearchEdgeDim,
                     !.linewidth = IF match THEN 3 ELSE 1]

applyHighlighting(scene, hl) ==
    [scene EXCEPT
        !.wordNodes = [i \in 1..Len(scene.wordNodes) |->
                          HighlightNode(scene.wordNodes[i],
                                        scene.wordNodes[i].userData.word \in hl)],
        !.wordLabels = [i \in 1..Len(scene.wordLabels) |->
                          HighlightLabel(scene.wordLabels[i], hl)],
        !.connections = [e \in 1..Len(scene.connections) |->
                          HighlightLine(scene.connections[e], hl)]]

\* variant: labels are left as they are
resetHighlightingKeepLabels(scene) ==
    [scene EXCEPT
        !.wordNodes = [i \in 1..Len(scene.wordNodes) |->
                          [scene.wordNodes[i] EXCEPT !.emissiveIntensity = 150,
                                                     !.opacity = 90,
                                                     !.scale = BaselineScale]],
        !.connections = [e \in 1..Len(scene.connections) |->
                          [scene.connections[e] EXCEPT !.opacity = DefaultEdgeOpacity]]]

resetHighlighting(scene) ==
    [scene EXCEPT
        !.wordNodes = [i \in 1..Len(scene.wordNodes) |->
                          [scene.wordNodes[i] EXCEPT !.emissiveIntensity = 150,
                                                     !.opacity = 90,
                                                     !.scale = BaselineScale]],
        !.wordLabels = [i \in 1..Len(scene.wordLabels) |->
                          [scene.wordLabels[i] EXCEPT !.visible = TRUE]],
        !.connections = [e \in 1..Len(scene.connections) |->
                          [scene.connections[e] EXCEPT !.opacity = DefaultEdgeOpacity]]]

(***************************************************************************)
(* Hover: resetNodeState, spawnSignal, triggerNeuralActivity, handleHover. *)
(* A scene is the record of the renderable lists; hovered is an index into *)
(* wordNodes, 0 for null.                                                  *)
(***************************************************************************)
resetNodeState(scene, node) ==
    [scene EXCEPT
        !.wordNodes[node] = [@ EXCEPT !.scale = BaselineScale, !.emissiveIntensity = 0],
        !.wordLabels[node] = [@ EXCEPT !.scale = LabelWidth,
                                       !.anchor = scene.wordNodes[node].position,
                                       !.floatY = scene.wordNodes[node].floatY,
                                       !.dy = -8,
                                       !.color = "green",
                                       !.opacity = 70],
        !.connections = [e \in 1..Len(scene.connections) |->
                          [scene.connections[e] EXCEPT !.color = "green",
                                                       !.opacity = DefaultEdgeOpacity]]]

spawnSignal(line) ==
    [start |-> line.start, end |-> line.end, progress |-> SparkIncrement]

\* variant: only outgoing edges count
TouchesAsSource(line, targetWord) == line.userData.source = targetWord

TouchesWord(line, targetWord) ==
    line.userData.source = targetWord \/ line.userData.target = targetWord

ActivateLine(line, targetWord) ==
    IF TouchesWord(line, targetWord)
    THEN [line EXCEPT !.color = "activeGlow", !.opacity = OverloadOpacity]
    ELSE [line EXCEPT !.color = "dimGlow", !.opacity = TunnelOpacity]

RECURSIVE SpawnedSparks(_, _, _, _)
SpawnedSparks(lines, targetWord, e, acc) ==
    IF e > Len(lines) THEN acc
    ELSE IF TouchesWord(lines[e], targetWord)
         THEN SpawnedSparks(lines, targetWord, e + 1, Append(acc, spawnSignal(lines[e])))
         ELSE SpawnedSparks(lines, targetWord, e + 1, acc)

triggerNeuralActivity(scene, words, targetNode) ==
    LET targetWord == words[targetNode].word
    IN  [scene EXCEPT
            !.connections = [e \in 1..Len(scene.connections) |->
                                ActivateLine(scene.connections[e], targetWord)],
            !.sparks = scene.sparks \o SpawnedSparks(scene.connections, targetWord, 1, <<>>)]

ApplyHoverVisuals(scene, object) ==
    [scene EXCEPT
        !.wordNodes[object] = [@ EXCEPT !.scale = HoverScale, !.emissiveIntensity = 0],
        !.wordLabels[object] = [@ EXCEPT !.scale = LabelHoverWidth,
                                         !.anchor = scene.wordNodes[object].position,
                                         !.floatY = scene.wordNodes[object].floatY,
                                         !.dy = 15,
                                         !.color = "white",
                                         !.opacity = 100]]

\* variant: the node hovered before is not reset
KeepPrevious(scene, hovered) == scene

ResetPrevious(scene, hovered) ==
    IF hovered # 0 THEN resetNodeState(scene, hovered) ELSE scene

\* intersects[0].object for the current mouse ray: 0 when nothing is hit
Intersected(scene, pointed) ==
    IF pointed \in 1..Len(scene.wordNodes) THEN pointed ELSE 0

\* variant: the node hovered before is reset after the candidate was set up
handleHoverResetLast(scene, words, hovered, pointed, cur) ==
    LET object == Intersected(scene, pointed)
    IN  IF object # 0
        THEN IF hovered # object
             THEN [scene |-> ResetPrevious(
                                triggerNeuralActivity(ApplyHoverVisuals(scene, object),
                                                      words, object),
                                hovered),
                   hoveredNode |-> object,
                   cursor |-> "pointer"]
             ELSE [scene |-> scene, hoveredNode |-> hovered, cursor |-> cur]
        ELSE IF hovered # 0
             THEN [scene |-> resetNodeState(scene, hovered),
                   hoveredNode |-> 0,
                   cursor |-> "default"]
             ELSE [scene |-> scene, hoveredNode |-> hovered, cursor |-> cur]

\* variant: the neural activity is triggered on every pass over the hovered node
handleHoverEveryPass(scene, words, hovered, pointed, cur) ==
    LET object == Intersected(scene, pointed)
    IN  IF object # 0
        THEN [scene |-> triggerNeuralActivity(
                           ApplyHoverVisuals(
                               IF hovered # object THEN ResetPrevious(scene, hovered)
                               ELSE scene, object),
                           words, object),
              hoveredNode |-> object,
              cursor |-> "pointer"]
        ELSE IF hovered # 0
             THEN [scene |-> resetNodeState(scene, hovered),
                   hoveredNode |-> 0,
                   cursor |-> "default"]
             ELSE [scene |-> scene, hoveredNode |-> hovered, cursor |-> cur]

\* the scene, the hovered node and the cursor after one pass
handleHover(scene, words, hovered, pointed, cur) ==
    LET object == Intersected(scene, pointed)
    IN  IF object # 0
        THEN IF hovered # object
             THEN [scene |-> triggerNeuralActivity(
                                ApplyHoverVisuals(ResetPrevious(scene, hovered), object),
                                words, object),
                   hoveredNode |-> object,
                   cursor |-> "pointer"]
             ELSE [scene |-> scene, hoveredNode |-> hovered, cursor |-> cur]
        ELSE IF hovered # 0
             THEN [scene |-> resetNodeState(scene, hovered),
                   hoveredNode |-> 0,
                   cursor |-> "default"]
             ELSE [scene |-> scene, hoveredNode |-> hovered, cursor |-> cur]

(***************************************************************************)
(* Per-frame work: animate() and the sparks' own animation callbacks.      *)
(* The clock is sampled at three points, one per frame in turn: SinTwice   *)
(* is sin(time * 2) and SinPlus is sin(time + i), each one of -1, 0, 1.    *)
(***************************************************************************)

SinTwice(time) == IF time = 0 THEN 0 ELSE IF time = 1 THEN 1 ELSE -1

SinPlus(time, i) == SinTwice((time + i) % 3)

\* 0.3 + (0.5 + sin(time * 2) * 0.3) * 0.4, in hundredths
BreathingOpacity(time) == 30 + ((50 + SinTwice(time) * 30) * 40) \div 100

\* variant: the start of the line moves with the clock as the nodes do
PulseLineMovingStart(line, time) ==
    [line EXCEPT !.opacity = IF @ < 100 THEN BreathingOpacity(time) ELSE @,
                 !.start.y = NumAdd(@, Num(SinTwice(time)))]

PulseLine(line, time) ==
    IF line.opacity < 100 THEN [line EXCEPT !.opacity = BreathingOpacity(time)] ELSE line

FloatNode(node, time, i) == [node EXCEPT !.floatY = @ + SinPlus(time, i)]

FollowNode(label, node) ==
    [label EXCEPT !.anchor = node.position, !.floatY = node.floatY, !.dy = -12]

\* variant: the progress is never wrapped
AdvanceSignalNoWrap(signal) == [signal EXCEPT !.progress = @ + SignalIncrement]

AdvanceSignal(signal) ==
    LET progress == signal.progress + SignalIncrement
    IN  [signal EXCEPT !.progress = IF progress >= ProgressOne THEN 0 ELSE progress]

\* The steps of animate() in the order of the code.  A frame in which a step
\* raises an exception runs the steps before it and none from it on; the
\* fault "none" is a frame in which nothing is raised.
\* variant: the hover pass is the first step of the frame
FrameStepsHoverFirst == <<"hover", "breathing", "float", "labels", "signals", "render">>

FrameSteps == <<"breathing", "float", "labels", "signals", "hover", "render">>

FrameFaults == Range(FrameSteps) \cup {"none"}

StepIndex(step) == CHOOSE k \in 1..Len(FrameSteps) : FrameSteps[k] = step

StepRuns(step, fault) == fault = "none" \/ StepIndex(step) < StepIndex(fault)

\* variant: the next frame is requested by the last statement of animate()
FrameRequestedAtEnd(fault) == fault = "none"

\* requestAnimationFrame is the first statement of animate(): the next frame
\* is requested before any step can raise
FrameRequested(fault) == TRUE

\* steps of animate() before the hover pass
animateScene(scene, time, fault) ==
    LET floated == [i \in 1..Len(scene.wordNodes) |->
                       FloatNode(scene.wordNodes[i], time, i - 1)]
        nodes == IF StepRuns("float", fault) THEN floated ELSE scene.wordNodes
    IN  [scene EXCEPT
            !.connections = IF StepRuns("breathing", fault)
                            THEN [e \in 1..Len(scene.connections) |->
                                     PulseLine(scene.connections[e], time)]
                            ELSE @,
            !.wordNodes = nodes,
            !.wordLabels = IF StepRuns("labels", fault)
                           THEN [i \in 1..Len(scene.wordLabels) |->
                                    IF i <= Len(nodes)
                                    THEN FollowNode(scene.wordLabels[i], nodes[i])
                                    ELSE scene.wordLabels[i]]
                           ELSE @,
            !.signals = IF StepRuns("signals", fault)
                        THEN [e \in 1..Len(scene.signals) |->
                                 AdvanceSignal(scene.signals[e])]
                        ELSE @]

\* variant: the spark is removed once its progress exceeds 1
animateSparkPastOne(spark) ==
    LET progress == spark.progress + SparkIncrement
    IN  IF progress <= ProgressOne THEN <<[spark EXCEPT !.progress = progress]>> ELSE <<>>

\* one call of a spark's animateSpark: <<spark>> while it lives, <<>> once removed
animateSpark(spark) ==
    LET progress == spark.progress + SparkIncrement
    IN  IF progress < ProgressOne THEN <<[spark EXCEPT !.progress = progress]>> ELSE <<>>

RECURSIVE RunSparkCallbacks(_)
RunSparkCallbacks(live) ==
    IF live = <<>> THEN <<>>
    ELSE animateSpark(Head(live)) \o RunSparkCallbacks(Tail(live))

(***************************************************************************)
(* State.                                                                  *)
(***************************************************************************)
VARIABLES
    artifact,          \* what fetch('embedding-data.json') will deliver
    randomSource,      \* the values Math.random() returns to createSignal
    loadPc,            \* loadWordEmbeddings: "fetching", "done" or "failed"
    consoleErrors,     \* number of console.error calls
    loadingVisible,    \* the 'loading' element is displayed
    stats,             \* text of 'total-chunks' and 'connection-count'
    wordData,
    wordDataDefined,   \* FALSE once wordData was assigned undefined
    wordNodes,
    wordLabels,
    connections,
    signals,
    sparks,
    highlightedWords,
    searchQuery,
    searchBox,         \* the text in the 'search-box' element
    mouse,             \* node under the pointer ray, 0 when none
    hoveredNode,       \* index into wordNodes, 0 for null
    cursor,
    framesLeft,        \* frames the session still runs
    rafPending,        \* a requestAnimationFrame callback of animate() is waiting
    frameLog,          \* for each frame run so far, the step that raised ("none")
    tornDown,          \* the host has asked for the visualization to stop
    lastEvent,         \* what the last step did
    state,             \* the dashboard's state object: ws and streamActive
    webSockets,        \* every WebSocket the dashboard constructed, oldest first
    reconnectTimers,   \* per stream, the setTimeout callbacks of handleDisconnect waiting
    lastStreamCall     \* "connect" or "disconnect": which of the two ran last

engine == <<artifact, randomSource, loadPc, consoleErrors, loadingVisible, stats,
          wordData, wordDataDefined, wordNodes, wordLabels, connections, signals,
          sparks, highlightedWords, searchQuery, searchBox, mouse, hoveredNode,
          cursor, framesLeft, rafPending, frameLog, tornDown, lastEvent>>

dashboard == <<state, webSockets, reconnectTimers, lastStreamCall>>

vars == <<engine, dashboard>>

Streams == {"screen", "logs", "status"}

\* the dashboard's state object and its environment before DOMContentLoaded
DashboardInit ==
    /\ state = [ws |-> [s \in Streams |-> 0], streamActive |-> FALSE]
    /\ webSockets = <<>>
    /\ reconnectTimers = [s \in Streams |-> 0]
    /\ lastStreamCall = "none"

Scene ==
    [wordNodes |-> wordNodes, wordLabels |-> wordLabels, connections |-> connections,
     signals |-> signals, sparks |-> sparks]

SetScene(scene) ==
    /\ wordNodes' = scene.wordNodes
    /\ wordLabels' = scene.wordLabels
    /\ connections' = scene.connections
    /\ signals' = scene.signals
    /\ sparks' = scene.sparks

(***************************************************************************)
(* Datasets.                                                               *)
(***************************************************************************)
WordPool ==
    << <<"A", "b">>, <<"b", "c">>, <<"C", "a">>, <<"a", " ", "b">>, <<"c", "c">> >>

UnknownWord == <<"z">>

PosPool ==
    << Vec(Num(-100), Num(0), Num(0)), Vec(Num(100), Num(100), Num(0)),
       Vec(Num(0), Num(-100), Num(100)), Vec(Num(50), Num(0), Num(-100)),
       Vec(Num(-50), Num(50), Num(50)) >>

CatPool ==
    << << <<"B", "c">> >>, <<>>, << <<"x">>, <<"A", "C">> >>, <<>>, <<>> >>

Next1(i, n) == WordPool[(i % n) + 1]

Prev1(i, n) == WordPool[((i + n - 2) % n) + 1]

ShortList(i, n) == << <<Next1(i, n), 90>> >>

LongList(i, n) == << <<Next1(i, n), 90>>, <<Prev1(i, n), 55>>, <<UnknownWord, 50>> >>

Entry(i, pos, cats, similar) ==
    [word |-> WordPool[i], position |-> pos, categories |-> cats, similar_words |-> similar]

\* every sequence whose i-th element is drawn from the i-th set
RECURSIVE SeqProduct(_)
SeqProduct(sets) ==
    IF sets = <<>> THEN {<<>>}
    ELSE {<<h>> \o t : h \in Head(sets), t \in SeqProduct(Tail(sets))}

InteractionDatasets(maxNodes) ==
    UNION {
        { [i \in 1..n |-> Entry(i, PosPool[i], CatPool[i], ShortList(i, n))],
          [i \in 1..n |-> Entry(i, PosPool[i], CatPool[i], LongList(i, n))] }
        : n \in 0..maxNodes }

Fetched(words) == [kind |-> "ok", words |-> words]

FailedFetches ==
    { [kind |-> k, words |-> <<>>] : k \in {"reject", "unparsable", "nowords"} }

RandomSources ==
    { [e \in 1..(2 * MaxNodes) |-> (seed + (e - 1) * 337) % ProgressOne] : seed \in {990} }

\* `corner` holds the nodes that may lie on the ray through the pointer's
\* first position, the corner (-1, -1) of the view; 0 stands for no node
InitPointing(artifacts, frames, corner) ==
    /\ artifact \in artifacts
    /\ randomSource \in RandomSources
    /\ loadPc = "fetching"
    /\ consoleErrors = 0
    /\ loadingVisible = TRUE
    /\ stats = <<0, 0>>
    /\ wordData = <<>>
    /\ wordDataDefined = TRUE
    /\ wordNodes = <<>>
    /\ wordLabels = <<>>
    /\ connections = <<>>
    /\ signals = <<>>
    /\ sparks = <<>>
    /\ highlightedWords = {}
    /\ searchQuery = <<>>
    /\ searchBox = <<>>
    /\ mouse \in corner \cap (0..Len(artifact.words))  \* new THREE.Vector2(-1, -1)
    /\ hoveredNode = 0
    /\ cursor = "default"
    /\ framesLeft = frames
    /\ rafPending = TRUE  \* init() ends with animate(), which requests a frame
    /\ frameLog = <<>>
    /\ tornDown = FALSE
    /\ lastEvent = "init"
    /\ DashboardInit

\* the sessions in which no node lies in the corner (-1, -1) of the view
InitWith(artifacts, frames) == InitPointing(artifacts, frames, {0})

Init == InitWith({Fetched(d) : d \in InteractionDatasets(MaxNodes)} \cup FailedFetches, MaxFrames)

(***************************************************************************)
(* loadWordEmbeddings, from the point where the fetch settles.             *)
(***************************************************************************)
\* w.position.x of an entry without position raises in the first forEach of
\* normalizeData, before any coordinate is written
HasPositions(words) == \A i \in 1..Len(words) : "position" \in DOMAIN words[i]

LoadFails ==
    /\ loadPc' = "failed"
    /\ consoleErrors' = consoleErrors + 1
    /\ UNCHANGED <<loadingVisible, stats, wordNodes, wordLabels, connections, signals,
                   sparks>>

\* variant: the nodes, labels and edges are made from the positions as fetched,
\* and the dataset is normalized afterwards
LoadBeforeNormalize ==
    /\ loadPc = "fetching"
    /\ lastEvent' = "load"
    /\ UNCHANGED <<artifact, randomSource, highlightedWords, searchQuery, searchBox,
                   mouse, hoveredNode, cursor, framesLeft, rafPending, frameLog,
                   tornDown>>
    /\ UNCHANGED dashboard
    /\ IF artifact.kind # "ok"
       THEN /\ LoadFails
            /\ wordData' = <<>>
            /\ wordDataDefined' = (artifact.kind # "nowords")
       ELSE LET words == artifact.words
                nodes == createWordNodes(words)
                lines == createSemanticConnections(words)
            IN  /\ wordData' = normalizeData(words)
                /\ wordDataDefined' = TRUE
                /\ wordNodes' = wordNodes \o nodes
                /\ wordLabels' = createWordLabels(words, nodes)
                /\ connections' = connections \o lines
                /\ signals' = signals \o createSignals(lines, randomSource)
                /\ stats' = <<Len(words), Len(connections')>>
                /\ loadingVisible' = FALSE
                /\ loadPc' = "done"
                /\ UNCHANGED <<sparks, consoleErrors>>

LoadWordEmbeddings ==
    /\ loadPc = "fetching"
    /\ lastEvent' = "load"
    /\ UNCHANGED <<artifact, randomSource, highlightedWords, searchQuery, searchBox,
                   mouse, hoveredNode, cursor, framesLeft, rafPending, frameLog,
                   tornDown>>
    /\ UNCHANGED dashboard
    /\ CASE artifact.kind \in {"reject", "unparsable"} ->
                /\ LoadFails
                /\ UNCHANGED <<wordData, wordDataDefined>>
         [] artifact.kind = "nowords" ->
                /\ LoadFails
                /\ wordData' = <<>>
                /\ wordDataDefined' = FALSE
         [] artifact.kind = "ok" /\ ~HasPositions(artifact.words) ->
                /\ LoadFails
                /\ wordData' = artifact.words
                /\ wordDataDefined' = TRUE
         [] OTHER ->
                LET words == normalizeData(artifact.words)
                    nodes == createWordNodes(words)
                    lines == createSemanticConnections(words)
                IN  /\ wordData' = words
                    /\ wordDataDefined' = TRUE
                    /\ wordNodes' = wordNodes \o nodes
                    /\ wordLabels' = createWordLabels(words, nodes)
                    /\ connections' = connections \o lines
                    /\ signals' = signals \o createSignals(lines, randomSource)
                    /\ stats' = <<Len(words), Len(connections')>>
                    /\ loadingVisible' = FALSE
                    /\ loadPc' = "done"
                    /\ UNCHANGED <<sparks, consoleErrors>>

\* what highlightedWords holds when the forEach of performSearch raised at
\* entry k: the matches before k, and k's own word when it was added before
\* its similar_words were read
HighlightedBeforeRaise(words, query, k) ==
    CollectHighlighted(SubSeq(words, 1, k - 1), query, 1, {})
        \cup (IF "categories" \in DOMAIN words[k] THEN {words[k].word} ELSE {})

(***************************************************************************)
(* The 'input' listener of the search box, and performSearch.              *)
(***************************************************************************)
QueryAlphabet == {"a", "B", " "}

QueryTexts(maxLen) == SeqsUpTo(QueryAlphabet, maxLen)

HoverQueryTexts == {<<>>, <<"a">>, <<" ", "B">>}

SearchInput(text) ==
    LET query == toLowerCase(trim(toLowerCase(text)))
    IN  /\ searchBox' = text
        /\ searchQuery' = trim(toLowerCase(text))
        /\ UNCHANGED <<artifact, randomSource, loadPc, consoleErrors, loadingVisible,
                       stats, wordData, wordDataDefined, signals, sparks, mouse,
                       hoveredNode, cursor, framesLeft, rafPending, frameLog,
                       tornDown>>
        /\ UNCHANGED dashboard
        /\ IF query = <<>>
           THEN /\ highlightedWords' = {}
                /\ lastEvent' = "search"
                /\ LET scene == resetHighlighting(Scene)
                   IN  /\ wordNodes' = scene.wordNodes
                       /\ wordLabels' = scene.wordLabels
                       /\ connections' = scene.connections
           ELSE IF ~wordDataDefined
           THEN \* undefined.forEach throws: the handler ends here
                /\ highlightedWords' = {}
                /\ lastEvent' = "searchRaised"
                /\ UNCHANGED <<wordNodes, wordLabels, connections>>
           ELSE IF FirstRaising(wordData, query) # 0
           THEN \* the callback throws inside forEach: applyHighlighting is not reached
                /\ highlightedWords' =
                       HighlightedBeforeRaise(wordData, query, FirstRaising(wordData, query))
                /\ lastEvent' = "searchRaised"
                /\ UNCHANGED <<wordNodes, wordLabels, connections>>
           ELSE /\ highlightedWords' = CollectHighlighted(wordData, query, 1, {})
                /\ lastEvent' = "search"
                /\ LET scene == applyHighlighting(Scene, highlightedWords')
                   IN  /\ wordNodes' = scene.wordNodes
                       /\ wordLabels' = scene.wordLabels
                       /\ connections' = scene.connections

(***************************************************************************)
(* The 'mousemove' listener.                                               *)
(***************************************************************************)
MouseMove(pointed) ==
    /\ pointed # mouse
    /\ mouse' = pointed
    /\ lastEvent' = "mouse"
    /\ UNCHANGED <<artifact, randomSource, loadPc, consoleErrors, loadingVisible, stats,
                   wordData, wordDataDefined, wordNodes, wordLabels, connections,
                   signals, sparks, highlightedWords, searchQuery, searchBox,
                   hoveredNode, cursor, framesLeft, rafPending, frameLog, tornDown>>
    /\ UNCHANGED dashboard

(***************************************************************************)
(* One display frame: animate(), then the callbacks of the sparks that     *)
(* were alive when the frame began.                                        *)
(***************************************************************************)
HoverEvent(before, after) ==
    IF before = after THEN "frame"
    ELSE IF after = 0 THEN "leave"
    ELSE IF before = 0 THEN "enter" ELSE "switch"

ClockSample == framesLeft % 3

\* the frame in which the step `fault` raises ("none": no step does)
FrameStep(fault) ==
    LET time == ClockSample
        stepped == [Scene EXCEPT !.sparks = RunSparkCallbacks(sparks)]
        animated == animateScene(stepped, time, fault)
        pass == IF StepRuns("hover", fault)
                THEN handleHover(animated, wordData, hoveredNode, mouse, cursor)
                ELSE [scene |-> animated, hoveredNode |-> hoveredNode, cursor |-> cursor]
    IN  /\ rafPending
        /\ framesLeft > 0
        /\ framesLeft' = framesLeft - 1
        /\ rafPending' = FrameRequested(fault)
        /\ frameLog' = Append(frameLog, fault)
        /\ SetScene(pass.scene)
        /\ hoveredNode' = pass.hoveredNode
        /\ cursor' = pass.cursor
        /\ lastEvent' = HoverEvent(hoveredNode, pass.hoveredNode)
        /\ UNCHANGED <<artifact, randomSource, loadPc, consoleErrors, loadingVisible,
                       stats, wordData, wordDataDefined, highlightedWords, searchQuery,
                       searchBox, mouse, tornDown>>
        /\ UNCHANGED dashboard

AnimationFrame == FrameStep("none")

(***************************************************************************)
(* The host asks the visualization to stop.  The class has no method and   *)
(* no listener for it: nothing of the engine changes, and the frame        *)
(* callback that is waiting keeps the instance alive.                      *)
(***************************************************************************)
HostTeardown ==
    /\ ~tornDown
    /\ tornDown' = TRUE
    /\ lastEvent' = "teardown"
    /\ UNCHANGED <<artifact, randomSource, loadPc, consoleErrors, loadingVisible, stats,
                   wordData, wordDataDefined, wordNodes, wordLabels, connections,
                   signals, sparks, highlightedWords, searchQuery, searchBox, mouse,
                   hoveredNode, cursor, framesLeft, rafPending, frameLog>>
    /\ UNCHANGED dashboard

Next ==
    \/ LoadWordEmbeddings
    \/ \E text \in HoverQueryTexts : SearchInput(text)
    \/ \E pointed \in 0..Len(artifact.words) : MouseMove(pointed)
    \/ AnimationFrame

Spec == Init /\ [][Next]_vars

(***************************************************************************)
(* Vocabulary of the properties.                                           *)
(***************************************************************************)
NodeIds == 1..Len(wordNodes)

EdgeIds == 1..Len(connections)

SceneBuilt == loadPc = "done"

\* what a highlight decides: scale and glow of nodes, visibility of labels,
\* opacity of edges
HighlightLook(scene) ==
    [nodes |-> [i \in 1..Len(scene.wordNodes) |->
                   <<scene.wordNodes[i].scale, scene.wordNodes[i].emissiveIntensity>>],
     labels |-> [i \in 1..Len(scene.wordLabels) |-> scene.wordLabels[i].visible],
     edges |-> [e \in 1..Len(scene.connections) |-> scene.connections[e].opacity]]

HasHoverVisuals(i) ==
    wordNodes[i].scale = HoverScale \/ wordLabels[i].scale = LabelHoverWidth

EdgeTouches(e, i) ==
    \/ connections[e].userData.source = wordNodes[i].userData.word
    \/ connections[e].userData.target = wordNodes[i].userData.word

(***************************************************************************)
(* C1.  When a hover-detection pass releases the hovered node while a      *)
(* non-empty query is active, the node scale and glow, the label           *)
(* visibility and the edge opacity after the pass are those of the search  *)
(* highlight for the current matched set.                                  *)
(***************************************************************************)
C1_ReleaseRestoresSearchHighlight ==
    (lastEvent = "leave" /\ searchQuery # <<>>)
        => HighlightLook(Scene) = HighlightLook(applyHighlighting(Scene, highlightedWords))

(***************************************************************************)
(* C3.  Right after the query became the empty string every node has the   *)
(* baseline scale, every label is visible, every edge has the default      *)
(* opacity and the highlighted set is empty.                               *)
(***************************************************************************)
C3_EmptyQueryResetsAll ==
    (lastEvent = "search" /\ searchQuery = <<>>)
        => /\ highlightedWords = {}
           /\ \A i \in NodeIds : wordNodes[i].scale = BaselineScale
           /\ \A i \in 1..Len(wordLabels) : wordLabels[i].visible
           /\ \A e \in EdgeIds : connections[e].opacity = DefaultEdgeOpacity

\* the query is cleared while a node is hovered and edges exist
C3_Witness ==
    /\ lastEvent = "search"
    /\ searchQuery = <<>>
    /\ hoveredNode # 0
    /\ Len(wordNodes) = MaxNodes
    /\ Len(connections) > 0

(***************************************************************************)
(* C4.  At most one node carries hover visuals (hover scale of the node or *)
(* the enlarged label) in every reachable state.                           *)
(***************************************************************************)
C4_AtMostOneHovering ==
    Cardinality({i \in NodeIds : HasHoverVisuals(i)}) <= 1

\* the pointer went directly from one node to another
C4_Witness ==
    /\ lastEvent = "switch"
    /\ HasHoverVisuals(hoveredNode)
    /\ Cardinality({i \in NodeIds : HasHoverVisuals(i)}) = 1

(***************************************************************************)
(* C5.  Right after hover entered a node, every edge with that node as     *)
(* source or as target is overloaded (highlight colour, opacity 1.0) and   *)
(* every other edge is dimmed to a low opacity greater than 0.             *)
(***************************************************************************)
C5_HoverOverloadsTouchingEdges ==
    lastEvent \in {"enter", "switch"}
        => \A e \in EdgeIds :
              IF EdgeTouches(e, hoveredNode)
              THEN connections[e].color = "activeGlow"
                   /\ connections[e].opacity = OverloadOpacity
              ELSE connections[e].color = "dimGlow"
                   /\ connections[e].opacity > 0
                   /\ connections[e].opacity < DefaultEdgeOpacity

\* X has an outgoing edge, an incoming edge, and some edge does not touch it
C5_Witness ==
    /\ lastEvent = "enter"
    /\ \E e \in EdgeIds :
          connections[e].userData.source = wordNodes[hoveredNode].userData.word
    /\ \E e \in EdgeIds :
          /\ connections[e].userData.target = wordNodes[hoveredNode].userData.word
          /\ connections[e].userData.source # wordNodes[hoveredNode].userData.word
    /\ \E e \in EdgeIds : ~EdgeTouches(e, hoveredNode)

(***************************************************************************)
(* C10.  Once a failed load has settled, the loading indicator is no       *)
(* longer displayed (it was replaced by the scene or by an error report).  *)
(***************************************************************************)
C10_FailedLoadLeavesLoadingState ==
    loadPc = "failed" => ~loadingVisible

(***************************************************************************)
(* Specifications that draw wider datasets for one stage of the pipeline.  *)
(***************************************************************************)
Scores == {50, 55, 90}

Descending(list) == \A k \in 1..(Len(list) - 1) : list[k][2] >= list[k + 1][2]

\* every similarity list of up to maxLen entries, sorted by descending score,
\* that names the second word, the third word or a word of no dataset
SimilarLists(maxLen) ==
    { list \in SeqsUpTo({WordPool[2], WordPool[3], UnknownWord} \X Scores, maxLen) :
        Descending(list) }

GraphEntries(i, n, maxLen) ==
    { Entry(i, PosPool[i], CatPool[i], list) :
        list \in IF i = 1 THEN SimilarLists(maxLen) ELSE {<<>>, LongList(i, n)} }

GraphDatasets(maxNodes, maxLen) ==
    UNION { SeqProduct([i \in 1..n |-> GraphEntries(i, n, maxLen)]) : n \in 1..maxNodes }

Coords == {-100, 0, 100}

Corners == { Vec(Num(x), Num(y), Num(z)) : x \in Coords, y \in Coords, z \in Coords }

FewPositions ==
    { Vec(Num(100), Num(0), Num(0)), Vec(Num(0), Num(-100), Num(100)),
      Vec(Num(-100), Num(-100), Num(-100)) }

NormEntries(i, n) ==
    { Entry(i, pos, CatPool[i], ShortList(i, n)) :
        pos \in IF i <= 2 THEN Corners ELSE FewPositions }

NormDatasets(maxNodes) ==
    UNION { SeqProduct([i \in 1..n |-> NormEntries(i, n)]) : n \in 1..maxNodes }

SearchEntries(i, n) ==
    IF i <= 2
    THEN { Entry(i, PosPool[i], cats, list) :
              cats \in { <<>>, CatPool[i], << <<"a", " ", "B">> >> },
              list \in { <<>>, ShortList(i, n), LongList(i, n) } }
    ELSE { Entry(i, PosPool[i], CatPool[i], LongList(i, n)) }

SearchDatasets(maxNodes) ==
    UNION { SeqProduct([i \in 1..n |-> SearchEntries(i, n)]) : n \in 1..maxNodes }

InitGraph == InitWith({Fetched(d) : d \in GraphDatasets(MaxNodes, MaxSimilar)}, 0)

InitNorm == InitWith({Fetched(d) : d \in NormDatasets(MaxNodes)}, 0)

InitSearch == InitWith({Fetched(d) : d \in SearchDatasets(MaxNodes)}, 0)

NextLoad == LoadWordEmbeddings

NextSearch ==
    \/ LoadWordEmbeddings
    \/ \E text \in QueryTexts(MaxQueryLen) : SearchInput(text)

SpecGraph == InitGraph /\ [][NextLoad]_vars

SpecNorm == InitNorm /\ [][NextLoad]_vars

SpecSearch == InitSearch /\ [][NextSearch]_vars

(***************************************************************************)
(* C2.  The highlighted set after a query change is the set of directly    *)
(* matching words united with the names in their similarity lists, one hop *)
(* only.                                                                   *)
(***************************************************************************)
DirectMatches(words, q) ==
    { i \in 1..Len(words) :
        \/ includes(toLowerCase(words[i].word), toLowerCase(q))
        \/ \E c \in Range(words[i].categories) : includes(toLowerCase(c), toLowerCase(q)) }

OneHop(words, q) ==
    { words[i].word : i \in DirectMatches(words, q) }
        \cup UNION { { entry[1] : entry \in Range(words[i].similar_words) } :
                        i \in DirectMatches(words, q) }

Stripped(text) ==
    LET solid == { k \in 1..Len(text) : text[k] # " " }
    IN  IF solid = {} THEN <<>>
        ELSE SubSeq(text, CHOOSE k \in solid : \A j \in solid : k <= j,
                          CHOOSE k \in solid : \A j \in solid : k >= j)

\* C2 with q the text as it was entered: for every non-empty entered text the
\* highlighted set is the one-hop set of the words that contain the text
C2_HighlightedSetOfEnteredText ==
    (lastEvent = "search" /\ searchBox # <<>>)
        => highlightedWords = OneHop(wordData, searchBox)

\* C2 with q the entered text in lower case without its leading and trailing
\* whitespace: the highlighted set is the one-hop set of q, and is empty when
\* nothing is left of the text
C2_HighlightedSetOfTrimmedText ==
    lastEvent = "search"
        => highlightedWords =
              IF Stripped(searchBox) = <<>> THEN {} ELSE OneHop(wordData, Stripped(searchBox))

\* whitespace was stripped from the text, and some word is highlighted only as
\* a neighbour while a neighbour of its own is not highlighted
C2_Witness ==
    /\ lastEvent = "search"
    /\ SceneBuilt
    /\ Stripped(searchBox) # searchBox
    /\ \E j \in 1..Len(wordData) :
          /\ wordData[j].word \in highlightedWords
          /\ j \notin DirectMatches(wordData, Stripped(searchBox))
          /\ \E entry \in Range(wordData[j].similar_words) : entry[1] \notin highlightedWords

(***************************************************************************)
(* C6.  After the graph is built every node is the source of at most two   *)
(* edges, every edge comes from a similarity entry of its source with      *)
(* score >= threshold, and an entry among the first two whose score equals *)
(* the threshold and whose neighbour is in the dataset has its edge.       *)
(***************************************************************************)
OutEdges(i) == { e \in EdgeIds : connections[e].userData.source = wordData[i].word }

C6_OutDegreeAndThreshold ==
    SceneBuilt =>
        /\ \A i \in 1..Len(wordData) : Cardinality(OutEdges(i)) <= 2
        /\ \A e \in EdgeIds :
              \E i \in 1..Len(wordData) :
                 /\ connections[e].userData.source = wordData[i].word
                 /\ \E entry \in Range(wordData[i].similar_words) :
                       /\ entry[1] = connections[e].userData.target
                       /\ entry[2] >= similarityThreshold
        /\ \A i \in 1..Len(wordData) :
              \A k \in 1..Len(wordData[i].similar_words) :
                 LET entry == wordData[i].similar_words[k]
                 IN  (/\ k <= 2
                      /\ entry[2] = similarityThreshold
                      /\ \E j \in 1..Len(wordData) : wordData[j].word = entry[1])
                        => \E e \in OutEdges(i) : connections[e].userData.target = entry[1]

\* a node with three entries at or above the threshold, all naming nodes, has
\* two edges; one of them comes from an entry at exactly the threshold
C6_Witness ==
    /\ SceneBuilt
    /\ Len(wordData) = 3
    /\ Len(wordData[1].similar_words) = 3
    /\ \A entry \in Range(wordData[1].similar_words) :
          /\ entry[2] >= similarityThreshold
          /\ \E j \in 1..Len(wordData) : wordData[j].word = entry[1]
    /\ wordData[1].similar_words[2][2] = similarityThreshold
    /\ wordData[1].similar_words[1][1] # wordData[1].similar_words[2][1]
    /\ Cardinality(OutEdges(1)) = 2

(***************************************************************************)
(* C7.  The edge list is, in node order, one edge for each of the first    *)
(* two entries of a node's similarity list, in stored order, whose score   *)
(* is >= threshold and whose neighbour is a word of the dataset.           *)
(***************************************************************************)
Qualifies(words, entry) ==
    /\ entry[2] >= similarityThreshold
    /\ \E k \in 1..Len(words) : words[k].word = entry[1]

FirstTwo(list) == [k \in 1..(IF Len(list) > 2 THEN 2 ELSE Len(list)) |-> list[k]]

RECURSIVE ExpectedEdges(_, _)
ExpectedEdges(words, i) ==
    IF i > Len(words) THEN <<>>
    ELSE LET kept == SelectSeq(FirstTwo(words[i].similar_words),
                               LAMBDA entry : Qualifies(words, entry))
         IN  [k \in 1..Len(kept) |-> <<words[i].word, kept[k][1]>>]
                \o ExpectedEdges(words, i + 1)

EdgePairs ==
    [e \in EdgeIds |-> <<connections[e].userData.source, connections[e].userData.target>>]

Axes == {"x", "y", "z"}

Least(S) == CHOOSE a \in S : \A b \in S : ~NumLess(b, a)

Greatest(S) == CHOOSE a \in S : \A b \in S : ~NumLess(a, b)

Values(words, axis) == { words[i].position[axis] : i \in 1..Len(words) }

SpanOn(words, axis) == NumSub(Greatest(Values(words, axis)), Least(Values(words, axis)))

MidOn(words, axis) ==
    NumDiv(NumAdd(Greatest(Values(words, axis)), Least(Values(words, axis))), Num(2))

WidestSpan(words) == Greatest({ SpanOn(words, axis) : axis \in Axes })

AllAtOnePosition(words) == \A i, j \in 1..Len(words) : words[i].position = words[j].position

C8_NormalizedBoxCentredWithTargetExtent ==
    (SceneBuilt /\ ~AllAtOnePosition(artifact.words)) =>
        /\ \A axis \in Axes : MidOn(wordData, axis) = Num(0)
        /\ WidestSpan(wordData) = Num(TARGET_EXTENT)
        /\ \A i \in 1..Len(wordData) : \A axis \in Axes :
              wordData[i].position[axis] =
                 NumMul(NumSub(artifact.words[i].position[axis], MidOn(artifact.words, axis)),
                        NumDiv(Num(TARGET_EXTENT), WidestSpan(artifact.words)))

\* Scenario B: the raw box is [-100, 100] on every axis, so the scale is 2.5,
\* and the raw point (100, 0, 0) is now at (250, 0, 0)
C8_Witness ==
    /\ SceneBuilt
    /\ \A axis \in Axes :
          /\ Least(Values(artifact.words, axis)) = Num(-100)
          /\ Greatest(Values(artifact.words, axis)) = Num(100)
    /\ NumDiv(Num(TARGET_EXTENT), WidestSpan(artifact.words)) = Rat(5, 2)
    /\ \E i \in 1..Len(wordData) :
          /\ artifact.words[i].position = Vec(Num(100), Num(0), Num(0))
          /\ wordData[i].position = Vec(Num(250), Num(0), Num(0))

(***************************************************************************)
(* C9.  When all nodes of the dataset are at one position, the load ends   *)
(* in the failed state with an error logged, no node, label or edge is     *)
(* built, and no stored position is non-finite.                            *)
(***************************************************************************)
C9_DegenerateBoxIsReported ==
    (loadPc # "fetching" /\ artifact.kind = "ok" /\ Len(artifact.words) > 0
        /\ AllAtOnePosition(artifact.words)) =>
        /\ loadPc = "failed"
        /\ wordNodes = <<>> /\ wordLabels = <<>> /\ connections = <<>>
        /\ \A i \in 1..Len(wordData) : \A axis \in Axes : IsFinite(wordData[i].position[axis])

(***************************************************************************)
(* Datasets that break the schema of the input artifact: an entry without  *)
(* its identifier, an entry whose position lacks the y field, a similarity *)
(* score outside [0, 1].  A field that is missing reads as undefined, and  *)
(* Math.min, Math.max and the subtraction of normalizeData turn undefined  *)
(* into NaN: the missing coordinate is the number NaN from its first use.  *)
(***************************************************************************)
MissingCoordinate == NaN

MalformedEntries(i, n) ==
    IF i <= 2
    THEN { [word |-> w, position |-> pos, categories |-> CatPool[i],
            similar_words |-> << <<Next1(i, n), score>> >>] :
              w \in {WordPool[i], Undefined},
              pos \in {PosPool[i], [PosPool[i] EXCEPT !.y = MissingCoordinate]},
              score \in {90, 150, -10} }
    ELSE { Entry(i, PosPool[i], CatPool[i], ShortList(i, n)) }

MalformedDatasets(maxNodes) ==
    UNION { SeqProduct([i \in 1..n |-> MalformedEntries(i, n)]) : n \in 1..maxNodes }

InitMalformed == InitWith({Fetched(d) : d \in MalformedDatasets(MaxNodes)}, 0)

SpecMalformed == InitMalformed /\ [][NextLoad]_vars

SchemaValid(words) ==
    \A i \in 1..Len(words) :
        /\ words[i].word # Undefined
        /\ \A axis \in Axes : IsFinite(words[i].position[axis])
        /\ \A entry \in Range(words[i].similar_words) : entry[2] \in 0..100

(***************************************************************************)
(* C11.  Once the load of a dataset that breaks the schema (an entry       *)
(* without identifier, with a missing coordinate, or with a score outside  *)
(* [0, 1]) has settled, the load has failed with an error, the stored      *)
(* positions are the raw ones (no normalization), and no node, label or    *)
(* edge exists.                                                            *)
(***************************************************************************)
C11_MalformedDatasetFailsLoad ==
    (loadPc # "fetching" /\ artifact.kind = "ok" /\ ~SchemaValid(artifact.words)) =>
        /\ loadPc = "failed"
        /\ consoleErrors > 0
        /\ wordNodes = <<>> /\ wordLabels = <<>> /\ connections = <<>>
        /\ \A i \in 1..Len(wordData) : wordData[i].position = artifact.words[i].position

(***************************************************************************)
(* C12.  In every reachable state the progress of every signal is at least *)
(* 0 and below 1: when the signal is created and after every frame.        *)
(***************************************************************************)
C12_SignalProgressInUnitInterval ==
    \A e \in 1..Len(signals) :
        signals[e].progress >= 0 /\ signals[e].progress < ProgressOne

\* a signal that was created close to 1 has wrapped to 0 in a frame, and
\* another signal has advanced by one increment without wrapping
C12_Witness ==
    /\ frameLog # <<>>
    /\ \E e \in 1..Len(signals) :
          /\ signals[e].progress = 0
          /\ randomSource[e] + SignalIncrement >= ProgressOne
    /\ \E e \in 1..Len(signals) :
          signals[e].progress = randomSource[e] + Len(frameLog) * SignalIncrement

(***************************************************************************)
(* The session in which steps of a frame may raise, and the session in     *)
(* which the host may ask for a stop.                                      *)
(***************************************************************************)
FrameDatasets(maxNodes) ==
    { [i \in 1..n |-> Entry(i, PosPool[i], CatPool[i], LongList(i, n))] :
        n \in {maxNodes - 1} }

InitFrames == InitWith({Fetched(d) : d \in FrameDatasets(MaxNodes)}, MaxFrames)

NextFrames ==
    \/ LoadWordEmbeddings
    \/ \E pointed \in 0..Len(artifact.words) : MouseMove(pointed)
    \/ \E fault \in FrameFaults : FrameStep(fault)

SpecFrames == InitFrames /\ [][NextFrames]_vars

NextTeardown ==
    \/ LoadWordEmbeddings
    \/ \E pointed \in 0..Len(artifact.words) : MouseMove(pointed)
    \/ AnimationFrame
    \/ HostTeardown

SpecTeardown == Init /\ [][NextTeardown]_vars

\* the number of frames, counted back from the last one, that raised
RECURSIVE TrailingFaults(_)
TrailingFaults(log) ==
    IF log = <<>> THEN 0
    ELSE IF log[Len(log)] = "none" THEN 0
    ELSE 1 + TrailingFaults(SubSeq(log, 1, Len(log) - 1))

(***************************************************************************)
(* C13.  After a frame in which a step raised, the next frame is requested *)
(* (a requested frame runs while the session has frames left), whatever    *)
(* the step is and however many frames raised before.                      *)
(***************************************************************************)
C13_LoopSurvivesBadFrame ==
    TrailingFaults(frameLog) > 0 => rafPending

\* each step has raised in some frame of a built scene, and frames ran after
\* the first bad one
C13_Witness ==
    /\ SceneBuilt
    /\ Len(frameLog) = MaxFrames
    /\ frameLog[1] = "hover"
    /\ frameLog[2] = "render"
    /\ frameLog[MaxFrames] = "none"

(***************************************************************************)
(* C14.  Once three or more consecutive frames have raised, the engine has *)
(* reported an error or has stopped requesting frames.                     *)
(***************************************************************************)
C14_ThreeBadFramesEscalate ==
    TrailingFaults(frameLog) >= 3 => (consoleErrors > 0 \/ ~rafPending)

(***************************************************************************)
(* C19.  After the host has asked the visualization to stop, no frame      *)
(* runs.                                                                   *)
(***************************************************************************)
C19_NoFrameAfterTeardown ==
    [][tornDown => frameLog' = frameLog]_vars

(***************************************************************************)
(* C15.  The renderables of the scene after the build: nodes, labels,      *)
(* edges, the signals of the edges, and the sparks that a hover spawns.    *)
(***************************************************************************)
RenderableCount ==
    Len(wordNodes) + Len(wordLabels) + Len(connections) + Len(signals) + Len(sparks)

TouchingEdges(i) == { e \in EdgeIds : EdgeTouches(e, i) }

\* C15 as the spec states it: once the scene is built, no step changes the
\* number of renderables in the scene
C15_RenderableCountConstant ==
    [][SceneBuilt => RenderableCount' = RenderableCount]_vars

\* C15 with the sparks set apart: once the scene is built, no step adds or
\* removes a node, a label, an edge or an edge signal, or changes which word
\* a node or which pair an edge stands for; the number of sparks grows only
\* in a step in which hover enters a node, by at most one spark per edge
\* touching that node
C15_OnlySparksComeAndGo ==
    [][SceneBuilt =>
          /\ Len(wordNodes') = Len(wordNodes)
          /\ Len(wordLabels') = Len(wordLabels)
          /\ Len(connections') = Len(connections)
          /\ Len(signals') = Len(signals)
          /\ \A i \in NodeIds : wordNodes'[i].userData = wordNodes[i].userData
          /\ \A e \in EdgeIds : connections'[e].userData = connections[e].userData
          /\ Len(sparks') > Len(sparks) =>
                /\ hoveredNode' # hoveredNode
                /\ hoveredNode' # 0
                /\ Len(sparks') <= Len(sparks) + Cardinality(TouchingEdges(hoveredNode'))
    ]_vars

\* hover entered a second node while a query is applied: sparks of both
\* entries are in the scene
C15_Witness ==
    /\ lastEvent = "switch"
    /\ searchQuery # <<>>
    /\ Len(sparks) > Cardinality(TouchingEdges(hoveredNode))
    /\ Len(wordNodes) = Len(wordData)

(***************************************************************************)
(* C16.  Right after a non-empty query was applied to a built scene, the   *)
(* label of a node is visible exactly when the node's word is in the       *)
(* matched set, and a node has the highlight scale when its word is in the *)
(* matched set and the dimmed scale otherwise.                             *)
(***************************************************************************)
QueryApplied == lastEvent = "search" /\ searchQuery # <<>> /\ SceneBuilt

C16_LabelsAndScalesFollowMatchedSet ==
    QueryApplied =>
        \A i \in NodeIds :
            /\ wordLabels[i].visible = (wordNodes[i].userData.word \in highlightedWords)
            /\ wordNodes[i].scale =
                  IF wordNodes[i].userData.word \in highlightedWords
                  THEN MatchScale ELSE DimScale

(***************************************************************************)
(* C17.  Right after a non-empty query was applied to a built scene, an    *)
(* edge has full opacity when its source and its target are both in the    *)
(* matched set, and the near-zero opacity otherwise.                       *)
(***************************************************************************)
C17_EdgesBrightBetweenMatches ==
    QueryApplied =>
        \A e \in EdgeIds :
            connections[e].opacity =
                IF /\ connections[e].userData.source \in highlightedWords
                   /\ connections[e].userData.target \in highlightedWords
                THEN SearchEdgeBright ELSE SearchEdgeDim

(***************************************************************************)
(* C18.  No reachable state shows effects of hover (a node at hover scale, *)
(* an enlarged label, an edge in a hover colour) together with effects of  *)
(* a search (a node at a search scale, a hidden label, an edge at the      *)
(* search-dimmed opacity).                                                 *)
(***************************************************************************)
HoverEffects ==
    \/ \E i \in NodeIds : HasHoverVisuals(i)
    \/ \E e \in EdgeIds : connections[e].color \in {"activeGlow", "dimGlow"}

SearchEffects ==
    \/ \E i \in NodeIds : wordNodes[i].scale \in {MatchScale, DimScale}
    \/ \E i \in 1..Len(wordLabels) : ~wordLabels[i].visible
    \/ \E e \in EdgeIds : connections[e].opacity = SearchEdgeDim

C18_OneHighlightModeAtATime == ~(HoverEffects /\ SearchEffects)

(***************************************************************************)
(* C20.  In a built scene, for two nodes that each name the other among    *)
(* the first two entries of their similarity lists with a score >= the     *)
(* threshold, the edge list holds the two directed edges between them at   *)
(* different places, every edge has a signal of its own running from its   *)
(* start to its end, and right after hover entered either node both edges  *)
(* are overloaded.                                                         *)
(***************************************************************************)
NamesAmongFirstTwo(words, i, j) ==
    \E entry \in Range(FirstTwo(words[i].similar_words)) :
        entry[1] = words[j].word /\ entry[2] >= similarityThreshold

Mutual(words, i, j) ==
    i # j /\ NamesAmongFirstTwo(words, i, j) /\ NamesAmongFirstTwo(words, j, i)

C20_BothDirectedEdgesKept ==
    SceneBuilt =>
        /\ Len(signals) = Len(connections)
        /\ \A e \in EdgeIds :
              signals[e].start = connections[e].start /\ signals[e].end = connections[e].end
        /\ \A i, j \in 1..Len(wordData) :
              Mutual(wordData, i, j) =>
                 \E e1, e2 \in EdgeIds :
                    /\ e1 # e2
                    /\ EdgePairs[e1] = <<wordData[i].word, wordData[j].word>>
                    /\ EdgePairs[e2] = <<wordData[j].word, wordData[i].word>>
                    /\ (lastEvent \in {"enter", "switch"} /\ hoveredNode \in {i, j}) =>
                          \A e \in {e1, e2} :
                             /\ connections[e].opacity = OverloadOpacity
                             /\ connections[e].color = "activeGlow"

\* hover entered a node that has a mutual neighbour, in a scene that also has
\* an edge which is not overloaded
C20_Witness ==
    /\ lastEvent = "enter"
    /\ \E j \in 1..Len(wordData) : Mutual(wordData, hoveredNode, j)
    /\ \E e \in EdgeIds : connections[e].opacity = TunnelOpacity

(***************************************************************************)
(* Vocabulary of the frame properties.                                     *)
(***************************************************************************)
FrameRan == frameLog' # frameLog

\* sparks whose first animation step was taken in the step just made
FreshSparks(live) == { k \in 1..Len(live) : live[k].progress = SparkIncrement }

(***************************************************************************)
(* C21.  In a frame that leaves the hovered node as it is, every edge at   *)
(* the overloaded or at the dimmed hover opacity keeps its opacity while a *)
(* node is hovered, and every edge at the search-dimmed opacity keeps its  *)
(* opacity while a non-empty query is active and no node is hovered.       *)
(***************************************************************************)
C21_BreathingSparesHighlightedEdges ==
    [][(FrameRan /\ hoveredNode' = hoveredNode) =>
          \A e \in EdgeIds :
             /\ (hoveredNode # 0
                   /\ connections[e].opacity \in {OverloadOpacity, TunnelOpacity})
                  => connections'[e].opacity = connections[e].opacity
             /\ (hoveredNode = 0 /\ searchQuery # <<>>
                   /\ connections[e].opacity = SearchEdgeDim)
                  => connections'[e].opacity = connections[e].opacity
    ]_vars

(***************************************************************************)
(* C22.  In a frame whose hover pass finds a candidate other than the      *)
(* hovered node, the node hovered before (if any) ends at normal scale     *)
(* with its label at normal size, the candidate ends with the hover        *)
(* visuals, the edges end as triggerNeuralActivity(candidate) sets them    *)
(* (so the reset ran before it), and one spark per edge touching the       *)
(* candidate was spawned; in a frame that leaves the hovered node as it    *)
(* is, no spark is spawned.                                                *)
(***************************************************************************)
C22_ResetThenApplyThenTriggerOnce ==
    [][FrameRan =>
          IF hoveredNode' # hoveredNode /\ hoveredNode' # 0
          THEN /\ hoveredNode # 0 =>
                     /\ wordNodes'[hoveredNode].scale = BaselineScale
                     /\ wordLabels'[hoveredNode].scale = LabelWidth
               /\ wordNodes'[hoveredNode'].scale = HoverScale
               /\ wordLabels'[hoveredNode'].scale = LabelHoverWidth
               /\ wordLabels'[hoveredNode'].opacity = 100
               /\ \A e \in EdgeIds :
                     connections'[e].opacity =
                        IF \/ connections[e].userData.source
                                 = wordNodes[hoveredNode'].userData.word
                           \/ connections[e].userData.target
                                 = wordNodes[hoveredNode'].userData.word
                        THEN OverloadOpacity ELSE TunnelOpacity
               /\ Cardinality(FreshSparks(sparks')) =
                     Cardinality({ e \in EdgeIds :
                        \/ connections[e].userData.source
                              = wordNodes[hoveredNode'].userData.word
                        \/ connections[e].userData.target
                              = wordNodes[hoveredNode'].userData.word })
          ELSE FreshSparks(sparks') = {}
    ]_vars

\* the pointer went from one node to another and then stayed for a frame:
\* the sparks of both entries are under way and none is fresh
C22_Witness ==
    /\ lastEvent = "frame"
    /\ hoveredNode # 0
    /\ wordNodes[hoveredNode].scale = HoverScale
    /\ \E i \in NodeIds : i # hoveredNode /\ wordLabels[i].color = "green"
    /\ sparks # <<>>
    /\ FreshSparks(sparks) = {}

(***************************************************************************)
(* C23.  In a frame whose hover pass finds no node while a node is         *)
(* hovered and no query is active, no node is hovered afterwards, the      *)
(* node ends at normal scale, its label ends with the scale, colour and    *)
(* opacity it was built with, and every edge ends at the default opacity.  *)
(***************************************************************************)
C23_ReleaseRestoresBaseline ==
    [][(FrameRan /\ hoveredNode # 0 /\ hoveredNode' = 0 /\ searchQuery = <<>>) =>
          LET built == createWordLabels(wordData, createWordNodes(wordData))[hoveredNode]
          IN  /\ wordNodes'[hoveredNode].scale = BaselineScale
              /\ wordLabels'[hoveredNode].scale = built.scale
              /\ wordLabels'[hoveredNode].color = built.color
              /\ wordLabels'[hoveredNode].opacity = built.opacity
              /\ \A e \in EdgeIds : connections'[e].opacity = DefaultEdgeOpacity
    ]_vars

(***************************************************************************)
(* C24.  In every frame the progress of every signal becomes               *)
(* (progress + increment) modulo 1: the overshoot is kept on a wrap.       *)
(***************************************************************************)
C24_SignalAdvancesModuloOne ==
    [][FrameRan =>
          \A e \in 1..Len(signals) :
             signals'[e].progress = (signals[e].progress + SignalIncrement) % ProgressOne
    ]_vars

(***************************************************************************)
(* C25.  In every state there are as many signals as edges, the signal of  *)
(* an edge starts at the stored position of the edge's source word and     *)
(* ends at that of its target word, and once the scene is built no step    *)
(* changes the number of signals or the start or end of a signal.          *)
(***************************************************************************)
PositionOf(name) == wordData[CHOOSE k \in 1..Len(wordData) : wordData[k].word = name].position

C25_OneSignalPerEdge ==
    /\ [](/\ Len(signals) = Len(connections)
          /\ \A e \in EdgeIds :
                /\ signals[e].start = PositionOf(connections[e].userData.source)
                /\ signals[e].end = PositionOf(connections[e].userData.target))
    /\ [][SceneBuilt =>
             /\ Len(signals') = Len(signals)
             /\ \A e \in 1..Len(signals) :
                   signals'[e].start = signals[e].start /\ signals'[e].end = signals[e].end
       ]_vars

\* frames, a hover entry and a query have all acted on a scene with edges
\* between nodes at different positions
C25_Witness ==
    /\ Len(signals) >= 2
    /\ \A e \in EdgeIds : signals[e].start # signals[e].end
    /\ Len(frameLog) >= 2
    /\ hoveredNode # 0
    /\ searchQuery # <<>>
    /\ sparks # <<>>

(***************************************************************************)
(* C26.  In a frame in which a step raises, exactly the steps that come    *)
(* before it in the order breathing, float, signal advance, hover pass,    *)
(* render have taken effect, and in a frame in which none raises all have: *)
(* the hover pass acts once, after breathing, float and signal advance,    *)
(* and has acted whenever the render is reached.                           *)
(***************************************************************************)
C26_StepsRunInOrder ==
    [][FrameRan =>
          LET fault == frameLog'[Len(frameLog')]
              breathingRan == fault # "breathing"
              floatRan == fault \notin {"breathing", "float"}
              signalsRan == fault \in {"hover", "render", "none"}
              hoverRan == fault \in {"render", "none"}
          IN  /\ \A i \in NodeIds :
                    wordNodes'[i].floatY =
                       wordNodes[i].floatY
                          + (IF floatRan THEN SinPlus(ClockSample, i - 1) ELSE 0)
              /\ \A e \in 1..Len(signals) :
                    signals'[e].progress =
                       IF ~signalsRan THEN signals[e].progress
                       ELSE IF signals[e].progress + SignalIncrement >= ProgressOne THEN 0
                       ELSE signals[e].progress + SignalIncrement
              /\ hoveredNode' =
                    IF ~hoverRan THEN hoveredNode
                    ELSE IF mouse \in NodeIds THEN mouse ELSE 0
              /\ \A e \in EdgeIds :
                    connections'[e].opacity =
                       IF hoveredNode' # hoveredNode
                       THEN IF hoveredNode' = 0 THEN DefaultEdgeOpacity
                            ELSE IF EdgeTouches(e, hoveredNode') THEN OverloadOpacity
                            ELSE TunnelOpacity
                       ELSE IF breathingRan /\ connections[e].opacity < 100
                            THEN BreathingOpacity(ClockSample)
                       ELSE connections[e].opacity
    ]_vars

\* the signal advance raised in the first frame, with the pointer on a node:
\* that frame dropped the hover pass, and the next frame entered the node
C26_Witness ==
    /\ SceneBuilt
    /\ frameLog = <<"signals", "none">>
    /\ lastEvent = "enter"
    /\ \E e \in EdgeIds : connections[e].opacity = OverloadOpacity
    /\ \E i \in NodeIds : wordNodes[i].floatY # 0
    /\ \E e \in 1..Len(signals) : signals[e].progress = randomSource[e] + SignalIncrement

(***************************************************************************)
(* C27.  No frame changes a position stored in the dataset, an endpoint of *)
(* an edge, or the start or end of a signal; frames move only the nodes    *)
(* and, with them, the labels.                                             *)
(***************************************************************************)
C27_FloatLeavesGeometryAlone ==
    [][FrameRan =>
          /\ wordData' = wordData
          /\ \A i \in NodeIds : wordNodes'[i].position = wordNodes[i].position
          /\ \A e \in EdgeIds :
                /\ connections'[e].start = connections[e].start
                /\ connections'[e].end = connections[e].end
          /\ \A e \in 1..Len(signals) :
                signals'[e].start = signals[e].start /\ signals'[e].end = signals[e].end
    ]_vars

\* after the last frame of the session some node is displaced, its label
\* has followed it, and the scene has edges
C27_Witness ==
    /\ framesLeft = 0
    /\ Len(connections) > 0
    /\ \E i \in NodeIds :
          wordNodes[i].floatY # 0 /\ wordLabels[i].floatY = wordNodes[i].floatY

(***************************************************************************)
(* C28.  Normalizing positions that are already normalized.                *)
(***************************************************************************)
Positions(words) == [i \in 1..Len(words) |-> words[i].position]

\* C28 as the spec states it: a second run of the normalization on the
\* stored, normalized positions gives other positions
C28_SecondRunChangesPositions ==
    (SceneBuilt /\ ~AllAtOnePosition(artifact.words)) =>
        Positions(normalizeData(wordData)) # Positions(wordData)

\* C28 as the code has it: for a dataset whose positions are not all equal,
\* a second run on the stored, normalized positions has centre 0 and scale
\* 1 and gives the same positions
C28_SecondRunChangesNothing ==
    (SceneBuilt /\ ~AllAtOnePosition(artifact.words)) =>
        /\ Positions(normalizeData(wordData)) = Positions(wordData)
        /\ NumDiv(Num(TARGET_EXTENT), WidestSpan(wordData)) = Num(1)
        /\ \A axis \in Axes : MidOn(wordData, axis) = Num(0)

\* the raw box was neither centred at the origin nor of the target extent:
\* the first run moved and scaled every position
C28_Witness ==
    /\ SceneBuilt
    /\ Len(wordData) >= 2
    /\ \E axis \in Axes : MidOn(artifact.words, axis) # Num(0)
    /\ WidestSpan(artifact.words) = Num(100)
    /\ \A i \in 1..Len(wordData) : wordData[i].position # artifact.words[i].position

(***************************************************************************)
(* C29.  Nothing is built while the dataset is being fetched; once the     *)
(* load is done the stored positions are the normalized positions of the   *)
(* fetched dataset, and every node, label, edge and signal was made from   *)
(* those normalized positions.                                             *)
(***************************************************************************)
C29_BuildUsesNormalizedPositions ==
    /\ loadPc = "fetching" =>
          wordNodes = <<>> /\ wordLabels = <<>> /\ connections = <<>> /\ signals = <<>>
    /\ SceneBuilt =>
          /\ Positions(wordData) = Positions(normalizeData(artifact.words))
          /\ Len(wordNodes) = Len(wordData) /\ Len(wordLabels) = Len(wordData)
          /\ \A i \in 1..Len(wordData) :
                /\ wordNodes[i].position = wordData[i].position
                /\ wordLabels[i].anchor = wordData[i].position
          /\ \A e \in EdgeIds :
                /\ connections[e].start = PositionOf(connections[e].userData.source)
                /\ connections[e].end = PositionOf(connections[e].userData.target)
                /\ signals[e].start = connections[e].start
                /\ signals[e].end = connections[e].end

\* a built scene with an edge, whose every position was changed by the
\* normalization
C29_Witness ==
    /\ SceneBuilt
    /\ Len(connections) > 0
    /\ \A i \in 1..Len(wordData) :
          /\ \A axis \in Axes : IsFinite(wordData[i].position[axis])
          /\ wordNodes[i].position # artifact.words[i].position

(***************************************************************************)
(* C30.  A similarity entry that names a word absent from the dataset      *)
(* yields no edge and does not fail the load; every entry among a node's   *)
(* first two with a score >= threshold and a name in the dataset has its   *)
(* edge and the edge's signal.                                             *)
(***************************************************************************)
C30_UnknownNeighbourDropsOneCandidate ==
    loadPc # "fetching" =>
        /\ loadPc = "done"
        /\ consoleErrors = 0
        /\ \A e \in EdgeIds :
              \E j \in 1..Len(wordData) : wordData[j].word = connections[e].userData.target
        /\ \A i \in 1..Len(wordData) :
              \A entry \in Range(FirstTwo(wordData[i].similar_words)) :
                 Qualifies(wordData, entry) =>
                    \E e \in EdgeIds :
                       /\ EdgePairs[e] = <<wordData[i].word, entry[1]>>
                       /\ e <= Len(signals)
                       /\ signals[e].end = PositionOf(entry[1])

\* the first entry of the first node names a word of no dataset with a score
\* over the threshold, its second entry has its edge, and so has an entry of
\* another node
C30_Witness ==
    /\ SceneBuilt
    /\ Len(wordData[1].similar_words) >= 2
    /\ wordData[1].similar_words[1] = <<UnknownWord, 90>>
    /\ \E e \in EdgeIds :
          EdgePairs[e] = <<wordData[1].word, wordData[1].similar_words[2][1]>>
    /\ \E e \in EdgeIds : connections[e].userData.source # wordData[1].word

(***************************************************************************)
(* Claims on the interaction of hover, search and load.                    *)
(***************************************************************************)
FrameEvents == {"frame", "enter", "switch", "leave"}

\* the scene as createWordNodes, createWordLabels and
\* createSemanticConnections make it from the stored dataset
SceneAsBuilt ==
    LET nodes == createWordNodes(wordData)
        lines == createSemanticConnections(wordData)
    IN  [wordNodes |-> nodes,
         wordLabels |-> createWordLabels(wordData, nodes),
         connections |-> lines,
         signals |-> createSignals(lines, randomSource),
         sparks |-> <<>>]

(***************************************************************************)
(* C31.  In every state at the end of a frame, a node recorded as hovered  *)
(* shows the hover visuals (hover scale, enlarged opaque label) and every  *)
(* edge touching it is overloaded, also when the query was changed or      *)
(* cleared while the pointer stayed on the node.                           *)
(***************************************************************************)
C31_HoveredNodeKeepsHoverVisuals ==
    (lastEvent \in FrameEvents /\ hoveredNode # 0) =>
        /\ wordNodes[hoveredNode].scale = HoverScale
        /\ wordLabels[hoveredNode].scale = LabelHoverWidth
        /\ wordLabels[hoveredNode].opacity = 100
        /\ \A e \in TouchingEdges(hoveredNode) : connections[e].opacity = OverloadOpacity

(***************************************************************************)
(* C34.  A non-empty query entered while the dataset is loading is shown   *)
(* once the scene is built: in no state is the stored query non-empty, the *)
(* scene built, the highlighted set empty and every node at baseline.      *)
(***************************************************************************)
C34_QueryTypedWhileLoadingIsApplied ==
    ~ ( /\ searchQuery # <<>>
        /\ SceneBuilt
        /\ Len(wordNodes) > 0
        /\ highlightedWords = {}
        /\ \A i \in NodeIds : wordNodes[i].scale = BaselineScale )

(***************************************************************************)
(* C36.  Search is history-independent and idempotent: with no hover       *)
(* active, the highlighted set and the node, label and edge visuals that   *)
(* a query leaves are those the same query leaves on the scene as built,   *)
(* whatever queries came before.                                           *)
(***************************************************************************)
\* what a search writes: glow, opacity and scale of nodes, visibility of
\* labels, opacity and width of edges
SearchVisuals(scene) ==
    [nodes |-> [i \in 1..Len(scene.wordNodes) |->
                   <<scene.wordNodes[i].emissiveIntensity, scene.wordNodes[i].opacity,
                     scene.wordNodes[i].scale>>],
     labels |-> [i \in 1..Len(scene.wordLabels) |-> scene.wordLabels[i].visible],
     edges |-> [e \in 1..Len(scene.connections) |->
                   <<scene.connections[e].opacity, scene.connections[e].linewidth>>]]

C36_SearchDependsOnQueryAlone ==
    (lastEvent = "search" /\ hoveredNode = 0 /\ SceneBuilt) =>
        LET query == toLowerCase(searchQuery)
            hl == IF query = <<>> THEN {} ELSE CollectHighlighted(wordData, query, 1, {})
        IN  /\ highlightedWords = hl
            /\ SearchVisuals(Scene) =
                  SearchVisuals(IF query = <<>> THEN resetHighlighting(SceneAsBuilt)
                                ELSE applyHighlighting(SceneAsBuilt, hl))

\* a query was applied that raises one node and dims another
C36_Witness ==
    /\ lastEvent = "search"
    /\ hoveredNode = 0
    /\ SceneBuilt
    /\ highlightedWords # {}
    /\ \E i \in NodeIds : wordNodes[i].scale = DimScale
    /\ \E i \in NodeIds : wordNodes[i].scale = MatchScale

(***************************************************************************)
(* C37.  In every reachable state the opacity of every edge is greater    *)
(* than 0 and at most 1.                                                   *)
(***************************************************************************)
C37_EdgesNeverInvisible ==
    \A e \in EdgeIds : connections[e].opacity > 0 /\ connections[e].opacity <= 100

\* a query has just dimmed the edges while a node is hovered and frames ran
C37_Witness ==
    /\ lastEvent = "search"
    /\ hoveredNode # 0
    /\ Len(frameLog) >= 1
    /\ \E e \in EdgeIds : connections[e].opacity = SearchEdgeDim

(***************************************************************************)
(* C38.  There is one baseline: after a hovered node was released, and     *)
(* after a query was cleared, node scale and glow, label scale, colour,    *)
(* opacity and visibility, and edge colour and opacity are those of the    *)
(* scene as built.                                                         *)
(***************************************************************************)
BaselineLook(scene) ==
    [nodes |-> [i \in 1..Len(scene.wordNodes) |->
                   <<scene.wordNodes[i].scale, scene.wordNodes[i].emissiveIntensity>>],
     labels |-> [i \in 1..Len(scene.wordLabels) |->
                   <<scene.wordLabels[i].scale, scene.wordLabels[i].color,
                     scene.wordLabels[i].opacity, scene.wordLabels[i].visible>>],
     edges |-> [e \in 1..Len(scene.connections) |->
                   <<scene.connections[e].color, scene.connections[e].opacity>>]]

C38_OneBaseline ==
    (SceneBuilt /\ searchQuery = <<>> /\ hoveredNode = 0 /\ lastEvent \in {"leave", "search"}) =>
        BaselineLook(Scene) = BaselineLook(SceneAsBuilt)

(***************************************************************************)
(* The sessions whose dataset has an entry that lacks a property.          *)
(***************************************************************************)
OptionalKeys == {"categories", "similar_words", "position"}

Without(entry, key) == [f \in DOMAIN entry \ {key} |-> entry[f]]

\* a dataset of well-formed entries, and the same with one property of one
\* entry absent
AbsentDatasets(maxNodes) ==
    LET n == maxNodes - 1
        full == [i \in 1..n |-> Entry(i, PosPool[i], CatPool[i], ShortList(i, n))]
    IN  {full} \cup
        { [full EXCEPT ![i] = Without(full[i], key)] : i \in 1..n, key \in OptionalKeys }

InitAbsent ==
    InitWith({Fetched(d) : d \in AbsentDatasets(MaxNodes)} \cup FailedFetches, MaxFrames - 1)

SpecAbsent == InitAbsent /\ [][Next]_vars

(***************************************************************************)
(* C32.  Handling a change of the query never raises: not before the       *)
(* dataset is loaded, not after a failed load, and for no dataset that     *)
(* scene build accepted, entries without categories or without a           *)
(* similarity list included.                                               *)
(***************************************************************************)
C32_SearchNeverRaises == lastEvent # "searchRaised"

(***************************************************************************)
(* C33.  No frame and no event sees a partially built scene: in every      *)
(* state the node list, the label list and the dataset have the same       *)
(* length, index i is the same word in all three, and there are as many    *)
(* signals as edges.                                                       *)
(***************************************************************************)
C33_NoPartialScene ==
    /\ Len(wordNodes) = Len(wordData)
    /\ Len(wordLabels) = Len(wordData)
    /\ \A i \in 1..Len(wordData) :
          /\ wordNodes[i].userData.word = wordData[i].word
          /\ wordLabels[i].text = wordData[i].word
    /\ Len(signals) = Len(connections)

(***************************************************************************)
(* The session that runs long enough for sparks to end: the load settles   *)
(* and the pointer and the query change during the first MaxFrames frames, *)
(* and the frames go on until every spark spawned meanwhile has made all   *)
(* its steps.                                                              *)
(***************************************************************************)
\* the calls of animateSpark after which progress < 1 is false
SparkSteps == ProgressOne \div SparkIncrement

InitSparks == InitWith({Fetched(d) : d \in FrameDatasets(MaxNodes)}, MaxFrames + SparkSteps)

NextSparks ==
    \/ Len(frameLog) < MaxFrames /\ LoadWordEmbeddings
    \/ Len(frameLog) < MaxFrames /\ \E pointed \in 0..Len(artifact.words) : MouseMove(pointed)
    \/ Len(frameLog) < MaxFrames /\ \E text \in {<<>>, <<"a">>} : SearchInput(text)
    \/ AnimationFrame

SpecSparks == InitSparks /\ [][NextSparks]_vars

(***************************************************************************)
(* C35.  Every spark is removed after a fixed number of its own steps:     *)
(* its progress goes from 0 in steps of 0.02 and the spark leaves the      *)
(* scene at the step that reaches 1, whatever hover or query changes       *)
(* happen meanwhile; once the hover changes have ceased, no spark is left  *)
(* after that many further frames.                                         *)
(***************************************************************************)
C35_SparksEndAfterFixedSteps ==
    /\ [](/\ \A k \in 1..Len(sparks) :
                /\ sparks[k].progress > 0
                /\ sparks[k].progress < ProgressOne
                /\ sparks[k].progress % SparkIncrement = 0
          /\ Len(frameLog) >= MaxFrames + SparkSteps - 1 => sparks = <<>>)
    /\ [][FrameRan =>
             LET kept == SelectSeq(sparks,
                                   LAMBDA s : s.progress + SparkIncrement < ProgressOne)
             IN  /\ Len(sparks') >= Len(kept)
                 /\ \A k \in 1..Len(sparks') :
                       sparks'[k].progress =
                          IF k <= Len(kept) THEN kept[k].progress + SparkIncrement
                          ELSE SparkIncrement]_vars

\* a spark is one step from its end while the node it came from has been
\* released and a query is shown
C35_Witness ==
    /\ \E k \in 1..Len(sparks) : sparks[k].progress = ProgressOne - SparkIncrement
    /\ hoveredNode = 0
    /\ searchQuery # <<>>

(***************************************************************************)
(* The sessions before the first pointer-move event.  The pointer is where *)
(* the constructor put it, at (-1, -1): in normalized device coordinates   *)
(* the bottom-left corner of the view.  Whether a node lies on the ray     *)
(* through that corner is for the dataset and the camera to decide.        *)
(***************************************************************************)
InitCorner ==
    InitPointing({Fetched(d) : d \in InteractionDatasets(MaxNodes)}, MaxFrames, 0..MaxNodes)

NextCorner ==
    \/ LoadWordEmbeddings
    \/ \E text \in HoverQueryTexts : SearchInput(text)
    \/ AnimationFrame

SpecCorner == InitCorner /\ [][NextCorner]_vars

(***************************************************************************)
(* C39.  The pointer starts off-screen: before the first pointer-move      *)
(* event no hover-detection pass makes a node hovered, wherever the nodes  *)
(* are placed in the view.                                                 *)
(***************************************************************************)
C39_NoHoverBeforeFirstMove == hoveredNode = 0

(***************************************************************************)
(* The dashboard (frontend/app.js): the screen, logs and status streams.   *)
(* A socket is [stream, readyState]; state.ws holds for each stream the    *)
(* index of a socket in webSockets, 0 for null.                            *)
(***************************************************************************)
Dashboard ==
    [state |-> state, webSockets |-> webSockets, reconnectTimers |-> reconnectTimers]

SetDashboard(d) ==
    /\ state' = d.state
    /\ webSockets' = d.webSockets
    /\ reconnectTimers' = d.reconnectTimers

\* connectScreenStream, connectLogsStream, connectStatusStream with a
\* well-formed apiUrl: new WebSocket(wsUrl), handlers set, state.ws[stream] = ws
connectStream(d, stream) ==
    [d EXCEPT !.webSockets = Append(@, [stream |-> stream, readyState |-> "connecting"]),
              !.state.ws[stream] = Len(d.webSockets) + 1]

connectWebSockets(d) ==
    connectStream(connectStream(connectStream(d, "screen"), "logs"), "status")

handleDisconnect(d, stream) ==
    [d EXCEPT !.state.ws[stream] = 0,
              !.reconnectTimers[stream] = @ + 1]

\* ws.close(): a socket that is connecting or open starts its closing handshake
close(socket) ==
    IF socket.readyState \in {"connecting", "open"}
    THEN [socket EXCEPT !.readyState = "closing"]
    ELSE socket

disconnectWebSockets(d) ==
    [d EXCEPT !.webSockets = [i \in 1..Len(d.webSockets) |->
                                 IF \E stream \in Streams : d.state.ws[stream] = i
                                 THEN close(d.webSockets[i])
                                 ELSE d.webSockets[i]],
              !.state.ws = [stream \in Streams |-> 0],
              !.state.streamActive = FALSE]

\* the DOMContentLoaded listener, as far as the streams go
DOMContentLoaded ==
    /\ lastStreamCall = "none"
    /\ SetDashboard(connectWebSockets(Dashboard))
    /\ lastStreamCall' = "connect"
    /\ UNCHANGED engine

\* the click listener of 'toggle-stream-btn'
ToggleStream ==
    /\ lastStreamCall # "none"
    /\ IF state.streamActive
       THEN /\ SetDashboard(disconnectWebSockets(Dashboard))
            /\ lastStreamCall' = "disconnect"
       ELSE /\ Len(webSockets) + 3 <= MaxSockets
            /\ SetDashboard(connectWebSockets(Dashboard))
            /\ lastStreamCall' = "connect"
    /\ UNCHANGED engine

\* ws.onopen
SocketOpens(i) ==
    /\ webSockets[i].readyState = "connecting"
    /\ webSockets' = [webSockets EXCEPT ![i].readyState = "open"]
    /\ state' = IF webSockets[i].stream = "screen"
                THEN [state EXCEPT !.streamActive = TRUE]
                ELSE state
    /\ UNCHANGED <<reconnectTimers, lastStreamCall>>
    /\ UNCHANGED engine

\* the close event of a socket, whatever ended the connection (a failed
\* connection, the server, the network, or close()), and ws.onclose
CloseEvent(i) ==
    LET closed == [Dashboard EXCEPT !.webSockets[i].readyState = "closed"]
        noted == IF webSockets[i].stream = "screen"
                 THEN [closed EXCEPT !.state.streamActive = FALSE]
                 ELSE closed
    IN  /\ webSockets[i].readyState # "closed"
        /\ SetDashboard(handleDisconnect(noted, webSockets[i].stream))
        /\ UNCHANGED lastStreamCall
        /\ UNCHANGED engine

\* the callback that handleDisconnect handed to setTimeout
ReconnectTimer(stream) ==
    /\ reconnectTimers[stream] > 0
    /\ Len(webSockets) < MaxSockets
    /\ SetDashboard(connectStream([Dashboard EXCEPT !.reconnectTimers[stream] = @ - 1],
                                  stream))
    /\ UNCHANGED lastStreamCall
    /\ UNCHANGED engine

InitDashboard == InitWith({Fetched(<<>>)}, 0)

NextDashboard ==
    \/ DOMContentLoaded
    \/ ToggleStream
    \/ \E i \in 1..Len(webSockets) : SocketOpens(i)
    \/ \E i \in 1..Len(webSockets) : CloseEvent(i)
    \/ \E stream \in Streams : ReconnectTimer(stream)

SpecDashboard == InitDashboard /\ [][NextDashboard]_vars

(***************************************************************************)
(* C40.  After disconnectWebSockets() no WebSocket of the screen, logs or  *)
(* status stream is opened until connectWebSockets() is called, and the    *)
(* close that the disconnect triggers schedules no reconnect.              *)
(***************************************************************************)
C40_NoReconnectAfterDisconnect ==
    [][(lastStreamCall = "disconnect" /\ lastStreamCall' = "disconnect") =>
          /\ Len(webSockets') = Len(webSockets)
          /\ \A stream \in Streams : reconnectTimers'[stream] <= reconnectTimers[stream]]_vars
====
